---- MODULE Spec2Model ----
(***************************************************************************)
(* A model of supersuit/parallel_wrappers.py: the wrappers frame_stack,    *)
(* delay_observations and frame_skip over a multi-agent base environment.  *)
(* The base environment is an external collaborator and is modelled by the *)
(* protocol it follows (reset / step over agent-keyed mappings); the       *)
(* helpers stack_init, stack_obs and Delayer are imported by the file from *)
(* modules that are not part of the sources at hand and follow their       *)
(* description; whether stack_obs shifts the buffer it is given or returns *)
(* a new one is not determined by it, and both are modelled.               *)
(***************************************************************************)
EXTENDS Integers, Sequences, FiniteSets, TLC

VARIABLES
    wrapper,       \* the class that was constructed
    stack_size,    \* frame_stack.stack_size
    delay,         \* delay_observations.delay
    num_frames,    \* frame_skip.num_frames
    env_removes,   \* whether the base environment drops done agents from env.agents
    stack_obs_inplace, \* whether stack_obs shifts the buffer it is given or a new one
    started,       \* whether reset has been called on the wrapper
    ncalls,        \* number of reset/step calls made on the wrapper so far
    env_agents,    \* env.agents, a list
    agents,        \* self.agents of the wrapper (Unset until the first call)
    act,           \* the argument of the latest step call on the wrapper
    env_act,       \* the argument the base environment's step received last
    env_ret,       \* what the base environment's latest reset/step returned
    ret,           \* what the wrapper's latest reset/step returned
    ret_ref,       \* frame_stack: the objects the latest call returned, per agent
    hist,          \* per agent, the raw observations of the current episode
    stack,         \* frame_stack.stack: agent -> reference to a buffer object
    heap,          \* the buffer objects that are still referenced
    next_ref,      \* the next fresh object reference
    held,          \* the objects a caller kept from the first call, per agent
    held_val,      \* the contents those objects had when they were returned
    nmod,          \* per agent, the _modify_observation calls of the current episode
    delayers,      \* delay_observations.delayers: agent -> queue of a Delayer
    obs_buffers,   \* frame_skip._obs_buffers: agent -> <<slot 0, slot 1>>
    pc,            \* frame_skip.step: "idle" between calls, "loop" inside the loop
    i,             \* frame_skip.step: the loop index
    next_agents,   \* frame_skip.step: the snapshot of env.agents
    total_reward,  \* frame_skip.step: the reward accumulator
    total_dones,   \* frame_skip.step: the latest dones
    total_infos,   \* frame_skip.step: the latest infos
    prev_obs,      \* frame_skip.step: the observations of sub-step n-2, once sub-step n-1 has run
    prev_done,     \* frame_skip.step: the dones of sub-step n-2, once sub-step n-1 has run
    sub_log,       \* per sub-step of the latest frame_skip.step, the rewards and dones
    error,         \* the exception the latest call on the wrapper raised, or "none"
    new_dtype,     \* dtype: the new_dtype argument
    checked,       \* dtype: whether check_param has been called
    check_error,   \* dtype: the exception check_param raised, or "none"
    cast_in,       \* dtype: the argument of the latest change_observation
    cast_out       \* dtype: what the latest change_observation returned

vars == <<wrapper, stack_size, delay, num_frames, env_removes, stack_obs_inplace, started, ncalls,
          env_agents, agents, act, env_act, env_ret, ret, ret_ref, hist, stack,
          heap, next_ref, held, held_val, nmod, delayers, obs_buffers, pc, i,
          next_agents, total_reward, total_dones, total_infos, prev_obs, prev_done, sub_log,
          error, new_dtype, checked, check_error, cast_in, cast_out>>

skipVars == <<obs_buffers, pc, i, next_agents, total_reward, total_dones,
              total_infos, prev_obs, prev_done, sub_log>>
stackVars == <<ret_ref, stack, heap, next_ref, held, held_val>>
dtypeVars == <<new_dtype, checked, check_error, cast_in, cast_out>>
wrapVars == <<wrapper, stack_size, delay, num_frames, env_removes, stack_obs_inplace,
              started, ncalls, env_agents, agents, act, env_act, env_ret, ret, hist,
              nmod, delayers, error>>

(***************************************************************************)
(* Bounds of the model.                                                    *)
(***************************************************************************)
MaxStackCalls == 3
MaxDelayCalls == 3
MaxSkipCalls == 3
MaxStack == 2
MaxDelay == 2
MaxFrames == 3

(***************************************************************************)
(* Values.                                                                 *)
(***************************************************************************)
possible_agents == <<"first_0", "second_0">>
Agents == {possible_agents[k] : k \in DOMAIN possible_agents}

\* Raw observations are arrays of two 8-bit pixels.
RawObs == {<<0, 1>>, <<1, 0>>}
Rewards == {0, 1}
Actions == {[a \in Agents |-> 0], [a \in Agents |-> IF a = "first_0" THEN 1 ELSE 0]}

Unset == "unset"
Empty == <<>>

Range(s) == {s[k] : k \in DOMAIN s}
Max(a, b) == IF a > b THEN a ELSE b

\* [agent for agent in list if keep(agent)]
RECURSIVE Filter(_, _)
Filter(list, keep) ==
    IF list = <<>> THEN <<>>
    ELSE (IF Head(list) \in keep THEN <<Head(list)>> ELSE <<>>) \o Filter(Tail(list), keep)

\* np.zeros_like(obs)
zeros_like(obs) == [k \in DOMAIN obs |-> 0]

\* np.zeros(n)
zeros(n) == [k \in 1..n |-> 0]

\* The number of elements of an observation of the base environment.
ObsSize == Len(CHOOSE o \in RawObs : TRUE)

(***************************************************************************)
(* The base environment.                                                   *)
(***************************************************************************)
\* env.reset(): every possible agent is active and gets an observation.
EnvResetResults == [Agents -> RawObs]

\* The info an agent gets with a reward.
InfoOf(r) == IF r = 0 THEN "i0" ELSE "i1"

\* env.step(actions): one entry per agent that was active before the step;
\* the two players' rewards are opposite (a zero-sum game), the info tells
\* whether a point was scored.
EnvStepResults(live) ==
    {[obs |-> o, rew |-> [a \in live |-> IF a = "first_0" THEN r ELSE 0 - r],
      done |-> d, info |-> [a \in live |-> InfoOf(r)]] :
        o \in [live -> RawObs], r \in Rewards, d \in [live -> BOOLEAN]}

\* env.agents after a step: the done agents leave the list in an environment
\* that removes them.
EnvAgentsAfter(list, done) ==
    IF env_removes THEN Filter(list, {a \in Range(list) : ~done[a]}) ELSE list

\* The observations an episode has produced so far, per agent.
HistAfter(h, obs) ==
    [a \in Agents |-> IF a \in DOMAIN obs THEN Append(h[a], obs[a]) ELSE h[a]]

NoHist == [a \in Agents |-> <<>>]
NoCount == [a \in Agents |-> 0]

(***************************************************************************)
(* frame_stack: stack_init, stack_obs and the wrapper's state.             *)
(***************************************************************************)
\* stack_init(space, stack_size): the zero-filled stacked buffer.
stack_init(K) == zeros(K * ObsSize)

\* The contents stack_obs gives the buffer: shifted by one frame, the oldest
\* frame dropped and obs appended as the newest.
Shifted(buf, obs, K) == SubSeq(buf, Len(obs) + 1, Len(buf)) \o obs

\* The state of a frame_stack object that its methods change.
StackState == [stack |-> stack, heap |-> heap, next_ref |-> next_ref, nmod |-> nmod]

\* frame_stack.reset, line 64: a new buffer object per observation space.
RECURSIVE StackInitAll(_, _, _)
StackInitAll(w, keys, K) ==
    IF keys = <<>> THEN w
    ELSE StackInitAll(
            [w EXCEPT !.stack = [a \in (DOMAIN w.stack) \cup {Head(keys)} |->
                                    IF a = Head(keys) THEN w.next_ref ELSE w.stack[a]],
                      !.heap = [r \in (DOMAIN w.heap) \cup {w.next_ref} |->
                                    IF r = w.next_ref THEN stack_init(K) ELSE w.heap[r]],
                      !.next_ref = w.next_ref + 1],
            Tail(keys), K)

\* stack_obs(frame_stack, obs, space, stack_size) on the buffer object ref:
\* the result is the shifted buffer, either the object it was given, shifted
\* in place, or a new object.
stack_obs(w, ref, obs, K) ==
    IF stack_obs_inplace
    THEN [w |-> [w EXCEPT !.heap[ref] = Shifted(w.heap[ref], obs, K)], out |-> ref]
    ELSE [w |-> [w EXCEPT !.heap = [r \in (DOMAIN w.heap) \cup {w.next_ref} |->
                                      IF r = w.next_ref THEN Shifted(w.heap[ref], obs, K)
                                      ELSE w.heap[r]],
                          !.next_ref = w.next_ref + 1],
          out |-> w.next_ref]

\* A _modify_observation that returns the shifted buffer and does not store it.
frame_stack_modify_observation_unstored(w, agent, observation, K) ==
    LET r == stack_obs(w, w.stack[agent], observation, K)
    IN  [w |-> [r.w EXCEPT !.nmod[agent] = w.nmod[agent] + 1], out |-> r.out]

\* frame_stack._modify_observation: the buffer stack_obs returns is stored in
\* self.stack[agent], and self.stack[agent] is returned.
frame_stack_modify_observation(w, agent, observation, K) ==
    LET r == stack_obs(w, w.stack[agent], observation, K)
    IN  [w |-> [r.w EXCEPT !.stack[agent] = r.out, !.nmod[agent] = w.nmod[agent] + 1],
         out |-> r.out]

\* ObservationWrapper: {agent: self._modify_observation(agent, obs) for agent, obs in obss.items()}
RECURSIVE StackModifyAll(_, _, _, _, _)
StackModifyAll(w, keys, obss, K, out) ==
    IF keys = <<>> THEN [w |-> w, out |-> out]
    ELSE LET a == Head(keys)
             m == frame_stack_modify_observation(w, a, obss[a], K)
         IN  StackModifyAll(m.w, Tail(keys), obss, K,
                            [b \in (DOMAIN out) \cup {a} |-> IF b = a THEN m.out ELSE out[b]])

\* The keys of a mapping in the order of possible_agents.
Keys(m) == Filter(possible_agents, DOMAIN m)

\* Objects nobody refers to any more are gone.
Collect(h, refs) == [r \in (DOMAIN h) \cap refs |-> h[r]]

(***************************************************************************)
(* delay_observations: the Delayer and the wrapper's state.                *)
(***************************************************************************)
\* Delayer.add(in_obs): the observation is pushed; once more than delay
\* observations are queued the oldest leaves the queue and is the result,
\* before that the result is a zero placeholder.
Delayer_add(q, in_obs, d) ==
    LET q1 == Append(q, in_obs)
    IN  IF Len(q1) > d THEN [q |-> Tail(q1), out |-> Head(q1)]
        ELSE [q |-> q1, out |-> zeros_like(in_obs)]

DelayState == [delayers |-> delayers, nmod |-> nmod]

\* A reset that keeps the delayers of the episode before.
delay_reset_delayers_stale(d) ==
    IF started THEN delayers ELSE [a \in Agents |-> <<>>]

\* A reset whose delayers start with a placeholder queued.
delay_reset_delayers_prefilled(d) == [a \in Agents |-> <<zeros(ObsSize)>>]

\* delay_observations.reset, line 82: an empty Delayer per observation space.
delay_reset_delayers(d) == [a \in Agents |-> <<>>]

\* A _modify_observation that keeps one delayer for all agents.
delay_modify_observation_shared(w, agent, obs, d) ==
    LET r == Delayer_add(w.delayers[possible_agents[1]], obs, d)
    IN  [w |-> [w EXCEPT !.delayers[possible_agents[1]] = r.q, !.nmod[agent] = w.nmod[agent] + 1],
         out |-> r.out]

\* delay_observations._modify_observation.
delay_modify_observation(w, agent, obs, d) ==
    LET r == Delayer_add(w.delayers[agent], obs, d)
    IN  [w |-> [w EXCEPT !.delayers[agent] = r.q, !.nmod[agent] = w.nmod[agent] + 1],
         out |-> r.out]

\* A comprehension that calls _modify_observation twice per entry.
RECURSIVE DelayModifyAll_twice(_, _, _, _, _)
DelayModifyAll_twice(w, keys, obss, d, out) ==
    IF keys = <<>> THEN [w |-> w, out |-> out]
    ELSE LET a == Head(keys)
             m1 == delay_modify_observation(w, a, obss[a], d)
             m == delay_modify_observation(m1.w, a, obss[a], d)
         IN  DelayModifyAll_twice(m.w, Tail(keys), obss, d,
                            [b \in (DOMAIN out) \cup {a} |-> IF b = a THEN m.out ELSE out[b]])

\* ObservationWrapper: {agent: self._modify_observation(agent, obs) for agent, obs in obss.items()}
RECURSIVE DelayModifyAll(_, _, _, _, _)
DelayModifyAll(w, keys, obss, d, out) ==
    IF keys = <<>> THEN [w |-> w, out |-> out]
    ELSE LET a == Head(keys)
             m == delay_modify_observation(w, a, obss[a], d)
         IN  DelayModifyAll(m.w, Tail(keys), obss, d,
                            [b \in (DOMAIN out) \cup {a} |-> IF b = a THEN m.out ELSE out[b]])

(***************************************************************************)
(* ParallelWraper and ObservationWrapper.                                  *)
(***************************************************************************)
ResetResult(o) == [call |-> "reset", obs |-> o, rew |-> Empty, done |-> Empty, info |-> Empty]
StepResult(o, r, d, n) == [call |-> "step", obs |-> o, rew |-> r, done |-> d, info |-> n]
\* A call that has not returned yet.
Running == [call |-> "running", obs |-> Empty, rew |-> Empty, done |-> Empty, info |-> Empty]
NoResult == [call |-> "none", obs |-> Empty, rew |-> Empty, done |-> Empty, info |-> Empty]

\* The base environment's reset, returning the observations o.
EnvReset(o) ==
    /\ env_agents' = possible_agents
    /\ env_ret' = ResetResult(o)
    /\ UNCHANGED env_act

\* The base environment's step on the given actions, returning r.
EnvStep(actions, r) ==
    /\ env_agents' = EnvAgentsAfter(env_agents, r.done)
    /\ env_ret' = StepResult(r.obs, r.rew, r.done, r.info)
    /\ env_act' = actions

\* ParallelWraper.reset
ParallelWraper_reset(o) ==
    /\ EnvReset(o)
    /\ agents' = env_agents'

\* ParallelWraper.step
ParallelWraper_step(actions, r) ==
    /\ EnvStep(actions, r)
    /\ agents' = env_agents'

\* ObservationWrapper.reset: the mapping that is returned.
ObservationWrapper_reset_result(obss) == ResetResult(obss)

\* A step that returns no rewards but zeros.
ObservationWrapper_step_result_zero_rew(obss, r) ==
    StepResult(obss, [a \in DOMAIN r.rew |-> 0], r.done, r.info)

\* ObservationWrapper.step: the tuple that is returned.
ObservationWrapper_step_result(obss, r) == StepResult(obss, r.rew, r.done, r.info)

\* A call that ended in an exception.
Raised == [call |-> "raised", obs |-> Empty, rew |-> Empty, done |-> Empty, info |-> Empty]

\* The lists env.agents can be.
LiveLists == {Filter(possible_agents, S) : S \in SUBSET Agents}

\* env.step(actions) on a base environment that was never reset: what it does
\* is not defined by the protocol; it raises, or it returns the mappings of a
\* step for the agents it takes to be active, which may be none.
EnvStepBeforeReset ==
    {[raised |-> TRUE, live |-> <<>>,
      r |-> [obs |-> Empty, rew |-> Empty, done |-> Empty, info |-> Empty]]}
    \cup UNION {{[raised |-> FALSE, live |-> l, r |-> r] : r \in EnvStepResults(Range(l))} :
                    l \in LiveLists}

\* A _modify_observation that hands the observation on while no buffer exists.
modify_observation_before_reset_lenient(agent, obs) == [error |-> "none", out |-> obs]

\* _modify_observation before any reset, lines 69 and 79: __init__ sets neither
\* self.stack nor self.delayers, reading the attribute raises AttributeError.
modify_observation_before_reset(agent, obs) == [error |-> "AttributeError", out |-> Empty]

\* ObservationWrapper.step, line 42, before any reset: the comprehension ends
\* at the first _modify_observation that raises.
RECURSIVE ModifyAllBeforeReset(_, _, _)
ModifyAllBeforeReset(keys, obss, out) ==
    IF keys = <<>> THEN [error |-> "none", out |-> out]
    ELSE LET a == Head(keys)
             m == modify_observation_before_reset(a, obss[a])
         IN  IF m.error # "none" THEN [error |-> m.error, out |-> Empty]
             ELSE ModifyAllBeforeReset(Tail(keys), obss,
                    [b \in (DOMAIN out) \cup {a} |-> IF b = a THEN m.out ELSE out[b]])

\* ObservationWrapper.step on a wrapper that was never reset.
StepBeforeReset(actions, e) ==
    /\ act' = actions
    /\ env_act' = actions
    /\ IF e.raised
       THEN /\ error' = "EnvError"
            /\ ret' = Raised
            /\ UNCHANGED <<env_agents, agents, env_ret>>
       ELSE LET m == ModifyAllBeforeReset(Keys(e.r.obs), e.r.obs, Empty)
            IN  /\ env_agents' = EnvAgentsAfter(e.live, e.r.done)
                /\ env_ret' = StepResult(e.r.obs, e.r.rew, e.r.done, e.r.info)
                /\ agents' = env_agents'
                /\ error' = m.error
                /\ ret' = IF m.error = "none"
                          THEN ObservationWrapper_step_result(m.out, e.r)
                          ELSE Raised

\* A caller keeps the objects the first call returned, and remembers their
\* contents.
Keep(out) == IF held = Empty THEN out ELSE held
KeepVal(out, h) == IF held = Empty THEN [a \in DOMAIN out |-> h[out[a]]] ELSE held_val

(***************************************************************************)
(* The calls on a frame_stack wrapper.                                     *)
(***************************************************************************)
\* The wrapper's state after its observations were modified.
StackAfter(m) ==
    /\ stack' = m.w.stack
    /\ next_ref' = m.w.next_ref
    /\ nmod' = m.w.nmod
    /\ ret_ref' = m.out
    /\ held' = Keep(m.out)
    /\ held_val' = KeepVal(m.out, m.w.heap)
    /\ heap' = Collect(m.w.heap, Range(m.w.stack) \cup Range(Keep(m.out)))

\* A reset that creates the buffers only the first time.
frame_stack_reset_stack_once(w, K) ==
    IF started THEN [w EXCEPT !.nmod = NoCount]
    ELSE StackInitAll([w EXCEPT !.stack = Empty, !.nmod = NoCount], possible_agents, K)

\* A reset whose buffers are one frame short.
frame_stack_reset_stack_short(w, K) ==
    StackInitAll([w EXCEPT !.stack = Empty, !.nmod = NoCount], possible_agents, K - 1)

\* frame_stack.reset, line 64: self.stack is a new mapping of new buffers.
frame_stack_reset_stack(w, K) ==
    StackInitAll([w EXCEPT !.stack = Empty, !.nmod = NoCount], possible_agents, K)

\* The contents of the objects a call returns.
Deref(m) == [a \in DOMAIN m.out |-> m.w.heap[m.out[a]]]

StackReset ==
    /\ wrapper = "frame_stack"
    /\ ncalls < MaxStackCalls
    /\ \E o \in EnvResetResults :
        LET w0 == frame_stack_reset_stack(StackState, stack_size)
            m == StackModifyAll(w0, Keys(o), o, stack_size, Empty)
        IN  /\ ParallelWraper_reset(o)
            /\ hist' = HistAfter(NoHist, o)
            /\ ret' = ObservationWrapper_reset_result(Deref(m))
            /\ StackAfter(m)
    /\ started' = TRUE
    /\ ncalls' = ncalls + 1
    /\ UNCHANGED <<wrapper, stack_size, delay, num_frames, env_removes, stack_obs_inplace, act, delayers>>
    /\ UNCHANGED skipVars
    /\ error' = "none"
    /\ UNCHANGED dtypeVars

StackStep ==
    /\ wrapper = "frame_stack"
    /\ started
    /\ ncalls < MaxStackCalls
    /\ \E r \in EnvStepResults(Range(env_agents)) :
        LET m == StackModifyAll(StackState, Keys(r.obs), r.obs, stack_size, Empty)
        IN  /\ hist' = HistAfter(hist, r.obs)
            /\ ret' = ObservationWrapper_step_result(Deref(m), r)
            /\ StackAfter(m)
            /\ \E actions \in Actions :
                /\ act' = actions
                /\ ParallelWraper_step(actions, r)
    /\ ncalls' = ncalls + 1
    /\ UNCHANGED <<wrapper, stack_size, delay, num_frames, env_removes, stack_obs_inplace, started, delayers>>
    /\ UNCHANGED skipVars
    /\ error' = "none"
    /\ UNCHANGED dtypeVars

\* frame_stack.step before any reset.
StackStepBeforeReset ==
    /\ wrapper = "frame_stack"
    /\ ~started
    /\ ncalls < MaxStackCalls
    /\ \E actions \in Actions : \E e \in EnvStepBeforeReset : StepBeforeReset(actions, e)
    /\ ncalls' = ncalls + 1
    /\ UNCHANGED <<wrapper, stack_size, delay, num_frames, env_removes, stack_obs_inplace,
                   started, hist, nmod, delayers>>
    /\ UNCHANGED stackVars
    /\ UNCHANGED skipVars
    /\ UNCHANGED dtypeVars

(***************************************************************************)
(* The calls on a delay_observations wrapper.                              *)
(***************************************************************************)
DelayReset ==
    /\ wrapper = "delay_observations"
    /\ ncalls < MaxDelayCalls
    /\ \E o \in EnvResetResults :
        LET w0 == [delayers |-> delay_reset_delayers(delay), nmod |-> NoCount]
            m == DelayModifyAll(w0, Keys(o), o, delay, Empty)
        IN  /\ ParallelWraper_reset(o)
            /\ hist' = HistAfter(NoHist, o)
            /\ delayers' = m.w.delayers
            /\ nmod' = m.w.nmod
            /\ ret' = ObservationWrapper_reset_result(m.out)
    /\ started' = TRUE
    /\ ncalls' = ncalls + 1
    /\ UNCHANGED <<wrapper, stack_size, delay, num_frames, env_removes, stack_obs_inplace, act>>
    /\ UNCHANGED stackVars
    /\ UNCHANGED skipVars
    /\ error' = "none"
    /\ UNCHANGED dtypeVars

DelayStep ==
    /\ wrapper = "delay_observations"
    /\ started
    /\ ncalls < MaxDelayCalls
    /\ \E actions \in Actions :
        \E r \in EnvStepResults(Range(env_agents)) :
            LET m == DelayModifyAll(DelayState, Keys(r.obs), r.obs, delay, Empty)
            IN  /\ act' = actions
                /\ ParallelWraper_step(actions, r)
                /\ hist' = HistAfter(hist, r.obs)
                /\ delayers' = m.w.delayers
                /\ nmod' = m.w.nmod
                /\ ret' = ObservationWrapper_step_result(m.out, r)
    /\ ncalls' = ncalls + 1
    /\ UNCHANGED <<wrapper, stack_size, delay, num_frames, env_removes, stack_obs_inplace, started>>
    /\ UNCHANGED stackVars
    /\ UNCHANGED skipVars
    /\ error' = "none"
    /\ UNCHANGED dtypeVars

\* delay_observations.step before any reset.
DelayStepBeforeReset ==
    /\ wrapper = "delay_observations"
    /\ ~started
    /\ ncalls < MaxDelayCalls
    /\ \E actions \in Actions : \E e \in EnvStepBeforeReset : StepBeforeReset(actions, e)
    /\ ncalls' = ncalls + 1
    /\ UNCHANGED <<wrapper, stack_size, delay, num_frames, env_removes, stack_obs_inplace,
                   started, hist, nmod, delayers>>
    /\ UNCHANGED stackVars
    /\ UNCHANGED skipVars
    /\ UNCHANGED dtypeVars

(***************************************************************************)
(* frame_skip.                                                             *)
(***************************************************************************)
\* The element type of the buffers is np.uint8: what is stored is cast.
ToUint8(obs) == [k \in DOMAIN obs |-> obs[k] % 256]

\* frame_skip.__init__, lines 90-92: two zero slots for each of the two agents.
frame_skip_init_buffers ==
    [a \in {"first_0", "second_0"} |-> <<ToUint8(zeros(ObsSize)), ToUint8(zeros(ObsSize))>>]

\* self._obs_buffers[agent][slot] = obs[agent] for agent in self.env.agents
WriteSlot(bufs, slot, list, obs) ==
    [a \in DOMAIN bufs |->
        IF a \in Range(list) THEN [bufs[a] EXCEPT ![slot + 1] = ToUint8(obs[a])] ELSE bufs[a]]

\* Buffers that are filled at the first two sub-steps instead of the last two.
frame_skip_buffers_after_first_two(bufs, k, n, list, obs) ==
    LET b0 == IF k = 0 THEN WriteSlot(bufs, 0, list, obs) ELSE bufs
    IN  IF k = n - 1 THEN WriteSlot(b0, 1, list, obs) ELSE b0

\* Buffers whose slot 0 is filled at the first sub-step when the window has
\* no second-to-last one.
frame_skip_buffers_after_clamped(bufs, k, n, list, obs) ==
    LET b0 == IF k = Max(n - 2, 0) THEN WriteSlot(bufs, 0, list, obs) ELSE bufs
    IN  IF k = n - 1 THEN WriteSlot(b0, 1, list, obs) ELSE b0

\* Buffers whose slot 1 is filled at every sub-step.
frame_skip_buffers_after_rolling(bufs, k, n, list, obs) ==
    LET b0 == IF k = n - 2 THEN WriteSlot(bufs, 0, list, obs) ELSE bufs
    IN  WriteSlot(b0, 1, list, obs)

\* lines 106-112: the second-to-last sub-step fills slot 0, the last one slot 1.
frame_skip_buffers_after(bufs, k, n, list, obs) ==
    LET b0 == IF k = n - 2 THEN WriteSlot(bufs, 0, list, obs) ELSE bufs
    IN  IF k = n - 1 THEN WriteSlot(b0, 1, list, obs) ELSE b0

\* A reward that is overwritten instead of accumulated.
frame_skip_reward_after_overwrite(total, rews) ==
    [a \in DOMAIN total |-> IF a \in DOMAIN rews THEN rews[a] ELSE total[a]]

\* lines 114-115: total_reward[agent] += rew for every agent of rews.
frame_skip_reward_after(total, rews) ==
    [a \in DOMAIN total |-> IF a \in DOMAIN rews THEN total[a] + rews[a] ELSE total[a]]

\* Dones and infos that keep the first value an agent got in the call.
frame_skip_latest_first(total, latest, keys) ==
    [a \in (DOMAIN total) \cup keys |-> IF a \in DOMAIN total THEN total[a] ELSE latest[a]]

\* lines 116-117: total_dones[agent] = done[agent], and the same for the infos.
frame_skip_latest(total, latest, keys) ==
    [a \in (DOMAIN total) \cup keys |-> IF a \in keys THEN latest[a] ELSE total[a]]

\* line 119: all(done.values())
AllDone(done) == \A a \in DOMAIN done : done[a]

\* A loop without the break of lines 119-120.
frame_skip_continues_no_break(k, n, done) == k + 1 < n

\* lines 103, 119-120: the loop goes on while sub-steps are left and not all are done.
frame_skip_continues(k, n, done) == k + 1 < n /\ ~AllDone(done)

\* self._obs_buffers[agent].max(axis=0)
MaxPool(buf) == [k \in DOMAIN buf[1] |-> Max(buf[1][k], buf[2][k])]

\* line 123: the pooled buffers of the agents of self.env.agents.
frame_skip_total_obs(bufs, list) == [a \in Range(list) |-> MaxPool(bufs[a])]

\* self.agents left as the last sub-step set it.
frame_skip_agents_after_postloop(snapshot, list) == list

\* line 122: self.agents = next_agents
frame_skip_agents_after(snapshot, list) == snapshot

\* frame_skip.reset is ParallelWraper.reset.
SkipReset ==
    /\ wrapper = "frame_skip"
    /\ pc = "idle"
    /\ ncalls < MaxSkipCalls
    /\ \E o \in EnvResetResults :
        /\ ParallelWraper_reset(o)
        /\ ret' = ResetResult(o)
    /\ prev_obs' = Empty
    /\ prev_done' = Empty
    /\ sub_log' = <<>>
    /\ started' = TRUE
    /\ ncalls' = ncalls + 1
    /\ UNCHANGED <<wrapper, stack_size, delay, num_frames, env_removes, stack_obs_inplace, act, hist, nmod,
                   delayers>>
    /\ UNCHANGED stackVars
    /\ UNCHANGED <<obs_buffers, pc, i, next_agents, total_reward, total_dones, total_infos>>
    /\ UNCHANGED error
    /\ UNCHANGED dtypeVars

\* frame_skip.step, lines 100-101.
SkipStepBegin ==
    /\ wrapper = "frame_skip"
    /\ pc = "idle"
    /\ started
    /\ ncalls < MaxSkipCalls
    /\ \E actions \in Actions : act' = actions
    /\ next_agents' = env_agents
    /\ total_reward' = [a \in Range(env_agents) |-> 0]
    /\ total_dones' = Empty
    /\ total_infos' = Empty
    /\ i' = 0
    /\ sub_log' = <<>>
    /\ prev_obs' = Empty
    /\ prev_done' = Empty
    /\ ret' = Running
    /\ pc' = "loop"
    /\ UNCHANGED <<wrapper, stack_size, delay, num_frames, env_removes, stack_obs_inplace, started, ncalls,
                   env_agents, agents, env_act, env_ret, hist, nmod, delayers, obs_buffers>>
    /\ UNCHANGED stackVars
    /\ UNCHANGED error
    /\ UNCHANGED dtypeVars

\* frame_skip.step, lines 103-120: one pass of the loop.
SkipSubStep ==
    /\ wrapper = "frame_skip"
    /\ pc = "loop"
    /\ \E r \in EnvStepResults(Range(env_agents)) :
        /\ ParallelWraper_step(act, r)
        /\ obs_buffers' = frame_skip_buffers_after(obs_buffers, i, num_frames, env_agents', r.obs)
        /\ total_reward' = frame_skip_reward_after(total_reward, r.rew)
        /\ total_dones' = frame_skip_latest(total_dones, r.done, DOMAIN r.rew)
        /\ total_infos' = frame_skip_latest(total_infos, r.info, DOMAIN r.rew)
        /\ sub_log' = Append(sub_log, [rew |-> r.rew, alldone |-> {a \in DOMAIN r.done : ~r.done[a]} = {}])
        /\ prev_obs' = IF sub_log # <<>> /\ i = num_frames - 1 THEN env_ret.obs ELSE Empty
        /\ prev_done' = IF sub_log # <<>> /\ i = num_frames - 1 THEN env_ret.done ELSE Empty
        /\ IF frame_skip_continues(i, num_frames, r.done)
           THEN i' = i + 1 /\ pc' = "loop"
           ELSE i' = i /\ pc' = "return"
    /\ UNCHANGED <<wrapper, stack_size, delay, num_frames, env_removes, stack_obs_inplace, started, ncalls,
                   act, ret, hist, nmod, delayers, next_agents>>
    /\ UNCHANGED stackVars
    /\ UNCHANGED error
    /\ UNCHANGED dtypeVars

\* frame_skip.step, lines 122-125.
SkipStepReturn ==
    /\ wrapper = "frame_skip"
    /\ pc = "return"
    /\ agents' = frame_skip_agents_after(next_agents, env_agents)
    /\ ret' = StepResult(frame_skip_total_obs(obs_buffers, env_agents),
                         total_reward, total_dones, total_infos)
    /\ pc' = "idle"
    /\ ncalls' = ncalls + 1
    /\ UNCHANGED <<wrapper, stack_size, delay, num_frames, env_removes, stack_obs_inplace, started,
                   env_agents, act, env_act, env_ret, hist, nmod, delayers, obs_buffers,
                   i, next_agents, total_reward, total_dones, total_infos, prev_obs,
                   prev_done, sub_log>>
    /\ UNCHANGED stackVars
    /\ UNCHANGED error
    /\ UNCHANGED dtypeVars

(***************************************************************************)
(* basic_transforms/dtype.py.                                              *)
(***************************************************************************)
\* The element types of the arrays.
ElemTypes == {"uint8", "int8", "int16"}

\* What a caller may pass as new_dtype: a class (np.int32), a dtype value
\* (np.dtype("int32")), a scalar instance (np.int32(3)), a string ("int32")
\* or None.
DtypeArgs ==
    [kind : {"type", "dtype", "scalar", "str"}, elem : ElemTypes]
        \cup {[kind |-> "none", elem |-> "none"]}

\* isinstance(new_dtype, type)
IsType(x) == x.kind = "type"

\* isinstance(new_dtype, np.dtype)
IsDtype(x) == x.kind = "dtype"

\* check_param, line 5: the assert statement; the exception it ends in, or "none".
check_param(obs_space, x) ==
    IF IsType(x) \/ IsDtype(x) THEN "none" ELSE "AssertionError"

\* The values of the arrays that are cast.
CastValues == {0 - 1, 0, 1, 200, 300}
CastObs == [1..ObsSize -> CastValues]

\* The cast of one integer to an element type: the value modulo its width.
CastElem(v, elem) ==
    CASE elem = "uint8" -> v % 256
      [] elem = "int8" -> ((v + 128) % 256) - 128
      [] elem = "int16" -> ((v + 32768) % 65536) - 32768

\* change_observation, line 8: obs.astype(new_dtype), a cast copy.
change_observation(obs, x) ==
    [dtype |-> x.elem, data |-> [k \in DOMAIN obs |-> CastElem(obs[k], x.elem)]]

\* check_param(space, new_dtype), called once when the transform is set up.
DtypeCheckParam ==
    /\ wrapper = "dtype"
    /\ ~checked
    /\ \E x \in DtypeArgs :
        /\ new_dtype' = x
        /\ check_error' = check_param("space", x)
    /\ checked' = TRUE
    /\ UNCHANGED <<cast_in, cast_out>>
    /\ UNCHANGED <<wrapVars, stackVars, skipVars>>

\* change_observation(obs, new_dtype), called for the observations of a
\* transform whose parameter passed the check.
DtypeChangeObservation ==
    /\ wrapper = "dtype"
    /\ checked
    /\ check_error = "none"
    /\ \E obs \in CastObs :
        /\ cast_in' = obs
        /\ cast_out' = change_observation(obs, new_dtype)
    /\ UNCHANGED <<new_dtype, checked, check_error>>
    /\ UNCHANGED <<wrapVars, stackVars, skipVars>>

(***************************************************************************)
(* The state after construction.                                           *)
(***************************************************************************)
InitCommon ==
    /\ started = FALSE
    /\ ncalls = 0
    /\ env_agents = <<>>
    /\ agents = Unset
    /\ act = Unset
    /\ env_act = Unset
    /\ env_ret = NoResult
    /\ ret = NoResult
    /\ ret_ref = Empty
    /\ hist = NoHist
    /\ stack = Unset
    /\ heap = Empty
    /\ next_ref = 1
    /\ held = Empty
    /\ held_val = Empty
    /\ nmod = NoCount
    /\ delayers = Unset
    /\ pc = "idle"
    /\ i = 0
    /\ next_agents = <<>>
    /\ total_reward = Empty
    /\ total_dones = Empty
    /\ total_infos = Empty
    /\ prev_obs = Empty
    /\ prev_done = Empty
    /\ sub_log = <<>>
    /\ error = "none"

\* No dtype transform is in use.
InitNoDtype ==
    /\ new_dtype = Unset
    /\ checked = FALSE
    /\ check_error = "none"
    /\ cast_in = Empty
    /\ cast_out = Empty

\* frame_stack(env, num_frames)
InitStack ==
    /\ wrapper = "frame_stack"
    /\ stack_obs_inplace \in BOOLEAN
    /\ stack_size \in 1..MaxStack
    /\ delay = 0
    /\ num_frames = 0
    /\ obs_buffers = Unset
    /\ env_removes = TRUE
    /\ InitCommon
    /\ InitNoDtype

\* delay_observations(env, delay)
InitDelay ==
    /\ wrapper = "delay_observations"
    /\ stack_obs_inplace = FALSE
    /\ stack_size = 0
    /\ delay \in 0..MaxDelay
    /\ num_frames = 0
    /\ obs_buffers = Unset
    /\ env_removes = TRUE
    /\ InitCommon
    /\ InitNoDtype

\* frame_skip(env, num_frames)
InitSkip ==
    /\ wrapper = "frame_skip"
    /\ stack_obs_inplace = FALSE
    /\ stack_size = 0
    /\ delay = 0
    /\ num_frames \in 1..MaxFrames
    /\ obs_buffers = frame_skip_init_buffers
    /\ env_removes \in BOOLEAN
    /\ InitCommon
    /\ InitNoDtype

\* The dtype transform, before check_param is called.
InitDtype ==
    /\ wrapper = "dtype"
    /\ stack_obs_inplace = FALSE
    /\ stack_size = 0
    /\ delay = 0
    /\ num_frames = 0
    /\ obs_buffers = Unset
    /\ env_removes = TRUE
    /\ InitCommon
    /\ InitNoDtype

NextStack == StackReset \/ StackStep \/ StackStepBeforeReset
NextDelay == DelayReset \/ DelayStep \/ DelayStepBeforeReset

NextSkip == SkipReset \/ SkipStepBegin \/ SkipSubStep \/ SkipStepReturn

SpecStack == InitStack /\ [][NextStack]_vars
SpecDelay == InitDelay /\ [][NextDelay]_vars
SpecSkip == InitSkip /\ [][NextSkip]_vars

\* The two observation wrappers.
InitObs == InitStack \/ InitDelay
NextObs == NextStack \/ NextDelay
SpecObs == InitObs /\ [][NextObs]_vars

NextDtype == DtypeCheckParam \/ DtypeChangeObservation
SpecDtype == InitDtype /\ [][NextDtype]_vars

Init == InitStack \/ InitDelay \/ InitSkip \/ InitDtype
Next == NextStack \/ NextDelay \/ NextSkip \/ NextDtype
Spec == Init /\ [][Next]_vars

(***************************************************************************)
(* Properties.                                                             *)
(***************************************************************************)
Returned == ret.call \in {"reset", "step"}
SkipReturned == wrapper = "frame_skip" /\ pc = "idle" /\ ret.call = "step"

\* The element-wise maximum of two observations.
ElemMax(x, y) == [k \in DOMAIN x |-> IF x[k] >= y[k] THEN x[k] ELSE y[k]]

\* The sequence of frames as one array.
RECURSIVE Flatten(_)
Flatten(frames) == IF frames = <<>> THEN <<>> ELSE Head(frames) \o Flatten(Tail(frames))

\* The last K entries of a sequence that has at least K.
LastK(h, K) == SubSeq(h, Len(h) - K + 1, Len(h))

\* C1: delay_observations with delay d: in every episode and for every agent,
\* the j-th observation the wrapper returns (j = 0 is the reset's) is all
\* zero when j < d and is the (j-d)-th raw observation of the episode when
\* j >= d.  The latest raw observation of an agent is hist[a][j + 1].
C1_DelayedObservation ==
    (wrapper = "delay_observations" /\ Returned) =>
        \A a \in DOMAIN ret.obs :
            LET j == Len(hist[a]) - 1
            IN  ret.obs[a] = IF j < delay THEN [k \in 1..ObsSize |-> 0]
                             ELSE hist[a][j - delay + 1]

\* A second episode in which an agent gets the observation of one step before.
C1_Witness ==
    /\ wrapper = "delay_observations"
    /\ delay = 1
    /\ ret.call = "step"
    /\ ncalls > Len(hist["first_0"])
    /\ Len(hist["first_0"]) = 2
    /\ hist["first_0"][1] # hist["first_0"][2]
    /\ ret.obs["first_0"] = hist["first_0"][1]

\* C2: frame_stack with depth K: once an agent has got K observations in the
\* episode (reset and K-1 steps, or more), the buffer returned for it is the
\* last K raw observations in arrival order, oldest first, and nothing else.
C2_LastKFrames ==
    (wrapper = "frame_stack" /\ Returned) =>
        \A a \in DOMAIN ret.obs :
            Len(hist[a]) >= stack_size =>
                ret.obs[a] = Flatten(LastK(hist[a], stack_size))

\* A step beyond the first full window: the oldest observation has left.
C2_Witness ==
    /\ wrapper = "frame_stack"
    /\ stack_size = 2
    /\ ret.call = "step"
    /\ Len(hist["second_0"]) = 3
    /\ hist["second_0"][1] # hist["second_0"][2]
    /\ ret.obs["second_0"] = hist["second_0"][2] \o hist["second_0"][3]

\* The sum of an agent's rewards over the sub-steps of a log.
RECURSIVE SumRew(_, _)
SumRew(log, a) ==
    IF log = <<>> THEN 0
    ELSE (IF a \in DOMAIN Head(log).rew THEN Head(log).rew[a] ELSE 0) + SumRew(Tail(log), a)

\* C3: frame_skip with window n: an outer step runs exactly
\* min(n, sub-steps until every agent is done) sub-steps, and the reward it
\* returns for an agent is the sum, from zero, of the agent's rewards over them.
C3_RewardSum ==
    SkipReturned =>
        /\ Len(sub_log) >= 1
        /\ Len(sub_log) <= num_frames
        /\ \A k \in 1..(Len(sub_log) - 1) : ~sub_log[k].alldone
        /\ (Len(sub_log) < num_frames => sub_log[Len(sub_log)].alldone)
        /\ \A a \in DOMAIN ret.rew : ret.rew[a] = SumRew(sub_log, a)

\* An outer step that stopped after two of three sub-steps, both with a point.
C3_Witness ==
    /\ SkipReturned
    /\ num_frames = 3
    /\ Len(sub_log) = 2
    /\ "first_0" \in DOMAIN ret.rew
    /\ ret.rew["first_0"] = 2

\* C4 as stated: with n >= 2 the observation an outer step returns for an
\* agent is the element-wise maximum of the raw observations of sub-steps n-2
\* and n-1 of that call.
C4_Original ==
    (SkipReturned /\ num_frames >= 2) =>
        \A a \in DOMAIN ret.obs :
            /\ Len(sub_log) = num_frames
            /\ ret.obs[a] = ElemMax(prev_obs[a], env_ret.obs[a])

\* C4 as amended: with n >= 2, when the outer step ran all n sub-steps, the
\* observation it returns for an agent is the element-wise maximum of the raw
\* observations of sub-steps n-2 and n-1 of that call.
C4_MaxOfLastTwo ==
    (SkipReturned /\ num_frames >= 2 /\ Len(sub_log) = num_frames) =>
        \A a \in DOMAIN ret.obs :
            ret.obs[a] = ElemMax(prev_obs[a], env_ret.obs[a])

\* A full window of three sub-steps whose last two observations differ.
C4_Witness ==
    /\ SkipReturned
    /\ num_frames = 3
    /\ Len(sub_log) = 3
    /\ "first_0" \in DOMAIN ret.obs
    /\ prev_obs["first_0"] # env_ret.obs["first_0"]
    /\ ret.obs["first_0"] = <<1, 1>>

\* C5: the observation, reward, done and info mappings an outer frame_skip
\* step returns are all keyed by the agents snapshotted before the loop, also
\* when the base environment drops an agent from its list during the loop.
C5_KeyedBySnapshot ==
    SkipReturned =>
        /\ DOMAIN ret.obs = Range(next_agents)
        /\ DOMAIN ret.rew = Range(next_agents)
        /\ DOMAIN ret.done = Range(next_agents)
        /\ DOMAIN ret.info = Range(next_agents)

\* C6: after every reset or step on a wrapper, its agents attribute is the
\* base environment's agents list as it is when the base call returned; after
\* frame_skip.step it is the snapshot taken before the sub-step loop, the
\* agents the first sub-step was run for.
C6_AgentsMirror ==
    Returned =>
        IF wrapper = "frame_skip" /\ ret.call = "step"
        THEN /\ agents = next_agents
             /\ Range(agents) = DOMAIN sub_log[1].rew
        ELSE agents = env_agents

\* A frame_skip step during which the base environment dropped an agent.
C6_Witness ==
    /\ SkipReturned
    /\ agents = possible_agents
    /\ env_agents = <<"second_0">>

ObsWrapper == wrapper \in {"frame_stack", "delay_observations"}

\* C7: every step on an observation wrapper hands the action mapping to the
\* base environment as given and returns the reward, done and info mappings
\* the base environment's step returned.
C7_PassThrough ==
    (ObsWrapper /\ ret.call = "step") =>
        /\ env_act = act
        /\ ret.rew = env_ret.rew
        /\ ret.done = env_ret.done
        /\ ret.info = env_ret.info

\* A step whose observation is transformed and whose reward is not zero.
C7_Witness ==
    /\ wrapper = "delay_observations"
    /\ ret.call = "step"
    /\ act["first_0"] = 1
    /\ ret.obs # env_ret.obs
    /\ "first_0" \in DOMAIN ret.rew
    /\ ret.rew["first_0"] = 1
    /\ ret.done["first_0"]

\* C8: every reset and step on an observation wrapper returns observations
\* for exactly the agents of the base environment's observation mapping, and
\* _modify_observation has run once per observation the base environment has
\* produced for an agent in the episode.
C8_OncePerEntry ==
    (ObsWrapper /\ Returned) =>
        /\ DOMAIN ret.obs = DOMAIN env_ret.obs
        /\ \A a \in Agents : nmod[a] = Len(hist[a])

\* A step the base environment ran for one agent only.
C8_Witness ==
    /\ ObsWrapper
    /\ ret.call = "step"
    /\ DOMAIN ret.obs = {"second_0"}
    /\ nmod["second_0"] = 3
    /\ nmod["first_0"] = 2

\* C9: a stacked observation frame_stack has returned is not an alias of
\* the wrapper's buffer: it is not changed by any later step or reset on the
\* wrapper.
C9_ReturnedNotMutated ==
    \A a \in DOMAIN held : heap[held[a]] = held_val[a]

\* The slots of an agent as they are when they start from zero in each call.
FreshSlot0(a) ==
    IF num_frames >= 2 /\ Len(sub_log) >= num_frames - 1
    THEN (IF Len(sub_log) = num_frames THEN prev_obs[a] ELSE env_ret.obs[a])
    ELSE [k \in 1..ObsSize |-> 0]
FreshSlot1(a) ==
    IF Len(sub_log) = num_frames THEN env_ret.obs[a] ELSE [k \in 1..ObsSize |-> 0]

\* C10: the frame_skip accumulator lives for one skip window: the reward
\* sums, the dones and infos and the two observation slots start afresh in
\* every outer step, so what the step returns is determined by the sub-steps
\* of that call alone.
C10_OneWindow ==
    SkipReturned =>
        /\ \A a \in DOMAIN ret.rew : ret.rew[a] = SumRew(sub_log, a)
        /\ \A a \in DOMAIN ret.obs : ret.obs[a] = ElemMax(FreshSlot0(a), FreshSlot1(a))

\* The pixels of an observation.
Pixels == UNION {Range(o) : o \in RawObs}

\* The smaller of two numbers.
Min(a, b) == IF a < b THEN a ELSE b

\* C11: in every state after the first reset of a frame_stack wrapper with
\* depth K, every agent has a stack buffer, the buffer holds exactly K frames
\* and every element of it is a value, and every stacked observation a reset
\* or step returns has that same shape.
C11_DepthIsK ==
    (wrapper = "frame_stack" /\ started) =>
        /\ DOMAIN stack = Agents
        /\ \A a \in Agents :
            /\ Len(heap[stack[a]]) = stack_size * ObsSize
            /\ \A k \in 1..(stack_size * ObsSize) : heap[stack[a]][k] \in Pixels \cup {0}
        /\ \A a \in DOMAIN ret.obs : Len(ret.obs[a]) = stack_size * ObsSize

\* A step of a second episode with depth 2: the returned shape is two frames.
C11_Witness ==
    /\ wrapper = "frame_stack"
    /\ stack_size = 2
    /\ ret.call = "step"
    /\ ncalls = 3
    /\ Len(hist["first_0"]) = 2
    /\ Len(ret.obs["first_0"]) = 2 * ObsSize
    /\ Len(heap[stack["second_0"]]) = 2 * ObsSize

\* C12: in every state after a reset of a delay_observations wrapper with
\* delay d, the queue of an agent is the last min(d, j) of the j raw
\* observations the agent has got in the episode, in arrival order: it holds
\* at most d observations, nothing from before the reset that created it, and
\* what it emitted is the observation that arrived right before its oldest.
C12_BoundedFifo ==
    (wrapper = "delay_observations" /\ started) =>
        \A a \in Agents :
            LET j == Len(hist[a])
            IN  /\ Len(delayers[a]) <= delay
                /\ delayers[a] = LastK(hist[a], Min(delay, j))
                /\ (a \in DOMAIN ret.obs /\ j > delay) =>
                        ret.obs[a] = hist[a][j - Len(delayers[a])]

\* A full queue of two distinct observations after the oldest was emitted.
C12_Witness ==
    /\ wrapper = "delay_observations"
    /\ delay = 2
    /\ ret.call = "step"
    /\ Len(hist["first_0"]) = 3
    /\ delayers["first_0"] = <<hist["first_0"][2], hist["first_0"][3]>>
    /\ hist["first_0"][2] # hist["first_0"][3]
    /\ hist["first_0"][1] # hist["first_0"][2]
    /\ ret.obs["first_0"] = hist["first_0"][1]

\* The exception classes that are TypeError or derive from it.
TypeErrorClass == {"TypeError"}

\* C13: check_param(space, new_dtype) ends in a TypeError-class error when
\* new_dtype is neither a type object nor a dtype value, and in no error when
\* it is one.
C13_TypeErrorUnlessDescriptor ==
    (wrapper = "dtype" /\ checked) =>
        IF IsType(new_dtype) \/ IsDtype(new_dtype)
        THEN check_error = "none"
        ELSE check_error \in TypeErrorClass

\* C14: with a window of n >= 1 frames, every outer frame_skip step runs at
\* least one and at most n base-environment steps: inside the loop fewer than
\* n have run and none of them had every done true, so no base step follows a
\* sub-step whose dones are all true; and the call returns after the n-th
\* sub-step or the first whose dones are all true.
C14_BoundedSubSteps ==
    wrapper = "frame_skip" =>
        /\ pc = "loop" =>
            /\ Len(sub_log) = i
            /\ i < num_frames
            /\ \A k \in 1..Len(sub_log) : ~sub_log[k].alldone
        /\ (pc = "return" \/ SkipReturned) =>
            /\ Len(sub_log) = i + 1
            /\ 1 <= Len(sub_log)
            /\ Len(sub_log) <= num_frames
            /\ \A k \in 1..(Len(sub_log) - 1) : ~sub_log[k].alldone
            /\ (sub_log[Len(sub_log)].alldone \/ Len(sub_log) = num_frames)

\* An outer step of a window of three that returned after its second
\* sub-step, the first whose dones were all true.
C14_Witness ==
    /\ SkipReturned
    /\ num_frames = 3
    /\ Len(sub_log) = 2
    /\ ~sub_log[1].alldone
    /\ sub_log[2].alldone
    /\ AllDone(env_ret.done)

\* The last sub-step of the log that reported the agent.
LastReport(a) ==
    CHOOSE k \in 1..Len(sub_log) :
        /\ a \in DOMAIN sub_log[k].rew
        /\ \A j \in (k + 1)..Len(sub_log) : a \notin DOMAIN sub_log[j].rew

Abs(x) == IF x < 0 THEN 0 - x ELSE x

\* C15: the done and info an outer frame_skip step returns for an agent are
\* those of the latest sub-step of the call (for an agent the base
\* environment dropped during the call, of the last sub-step that reported
\* it, where it was done), whatever earlier sub-steps reported: they are
\* overwritten, not combined.
C15_LatestDoneInfo ==
    SkipReturned =>
        /\ DOMAIN ret.done = DOMAIN sub_log[1].rew
        /\ DOMAIN ret.info = DOMAIN sub_log[1].rew
        /\ \A a \in DOMAIN ret.done :
            IF a \in DOMAIN env_ret.done
            THEN /\ ret.done[a] = env_ret.done[a]
                 /\ ret.info[a] = env_ret.info[a]
            ELSE /\ ret.done[a]
                 /\ ret.info[a] = InfoOf(Abs(sub_log[LastReport(a)].rew[a]))

\* An agent that was done at the sub-step before the last and not done at
\* the last is returned as not done, with the last info.
C15_Witness ==
    /\ SkipReturned
    /\ num_frames = 2
    /\ Len(sub_log) = 2
    /\ "first_0" \in DOMAIN ret.done
    /\ "first_0" \in DOMAIN prev_done
    /\ "first_0" \in DOMAIN env_ret.done
    /\ prev_done["first_0"]
    /\ ~env_ret.done["first_0"]
    /\ ~ret.done["first_0"]
    /\ sub_log[1].rew["first_0"] = 1
    /\ sub_log[2].rew["first_0"] = 0
    /\ ret.info["first_0"] = "i0"

\* C16: every reset of a frame_stack wrapper with depth K, the first one and
\* any later one, gives every agent a new buffer: the observation the reset
\* returns for an agent, and the agent's buffer, is the fill value in the K-1
\* older slots followed by the first raw observation of the new episode, and
\* holds no frame of an earlier episode.
C16_ResetReinitializes ==
    (wrapper = "frame_stack" /\ ret.call = "reset") =>
        /\ DOMAIN ret.obs = Agents
        /\ \A a \in Agents :
            /\ Len(hist[a]) = 1
            /\ ret.obs[a] = zeros((stack_size - 1) * ObsSize) \o hist[a][1]
            /\ heap[stack[a]] = ret.obs[a]

\* A reset after a reset and a step that gave both agents a frame (eleven
\* buffer objects were created up to it), with depth 2.
C16_Witness ==
    /\ wrapper = "frame_stack"
    /\ ~stack_obs_inplace
    /\ stack_size = 2
    /\ ret.call = "reset"
    /\ ncalls = 3
    /\ next_ref = 11
    /\ ret.obs["first_0"] = <<0, 0, 1, 0>>
    /\ held_val["first_0"] = <<0, 0, 0, 1>>

\* A step has been called on an observation wrapper and reset has not.
StepBeforeAnyReset == ObsWrapper /\ ~started /\ ncalls > 0

\* C17 as stated: a step on a frame_stack or delay_observations wrapper before
\* any reset ends in a fatal error, not in a result.
C17_Original ==
    StepBeforeAnyReset => (ret.call = "raised" /\ error # "none")

\* C17 as amended: a step before any reset never returns a transformed
\* observation; when the base environment's step returned an observation
\* for some agent the call ends in the error of the missing buffers, and it
\* returns a result only when the base environment returned no observation
\* at all, the result then holding no observation.
C17_NoObservationBeforeReset ==
    StepBeforeAnyReset =>
        /\ ret.obs = Empty
        /\ (error = "none") = (ret.call = "step")
        /\ (error # "none") = (ret.call = "raised")
        /\ (error # "EnvError" /\ DOMAIN env_ret.obs # {}) => error = "AttributeError"
        /\ error = "AttributeError" => DOMAIN env_ret.obs # {}

\* A step before any reset for which the base environment returned
\* observations for both agents and which ended in AttributeError.
C17_Witness ==
    /\ StepBeforeAnyReset
    /\ DOMAIN env_ret.obs = Agents
    /\ error = "AttributeError"
    /\ ret.call = "raised"

\* The slot-0 contents construction leaves.
Slot0AtConstruction == [k \in 1..ObsSize |-> 0]

\* C18: with a window below 2 (one frame) no step ever changes slot 0 of any
\* agent: it holds what construction left in every state, and every
\* observation an outer step returns is the element-wise maximum of the last
\* sub-frame, which is in slot 1, and those slot-0 contents.
C18_Slot0NeverWritten ==
    (wrapper = "frame_skip" /\ num_frames < 2) =>
        /\ \A a \in DOMAIN obs_buffers : obs_buffers[a][1] = Slot0AtConstruction
        /\ SkipReturned =>
            \A a \in DOMAIN ret.obs :
                /\ obs_buffers[a][2] = env_ret.obs[a]
                /\ ret.obs[a] = ElemMax(env_ret.obs[a], Slot0AtConstruction)

\* The second outer step of a window of one frame.
C18_Witness ==
    /\ SkipReturned
    /\ num_frames = 1
    /\ ncalls = 3
    /\ "first_0" \in DOMAIN ret.obs
    /\ obs_buffers["first_0"] = <<<<0, 0>>, <<1, 0>>>>
    /\ ret.obs["first_0"] = <<1, 0>>

\* Slot s of some agent's buffer differs between this state and the next.
SlotChanges(s) == \E a \in DOMAIN obs_buffers : obs_buffers'[a][s + 1] # obs_buffers[a][s + 1]

\* C19: a step of frame_skip changes slot 0 only in the pass of the loop with
\* index n-2 and slot 1 only in the pass with index n-1, so that the passes
\* before index n-2 leave every slot of every agent as it was; and when a
\* call returns that stopped before index n-2, every observation it returns
\* is the element-wise maximum of the two slots as earlier calls left them,
\* all zeros when they are as construction left them.
C19_WrittenAtLastTwoOnly ==
    [][wrapper = "frame_skip" =>
        /\ SlotChanges(0) => (pc = "loop" /\ i = num_frames - 2)
        /\ SlotChanges(1) => (pc = "loop" /\ i = num_frames - 1)
        /\ (pc = "loop" /\ i < num_frames - 2) => obs_buffers' = obs_buffers
        /\ (pc = "return" /\ Len(sub_log) < num_frames - 1) =>
            /\ obs_buffers' = obs_buffers
            /\ ret'.call = "step"
            /\ \A a \in DOMAIN ret'.obs :
                /\ ret'.obs[a] = ElemMax(obs_buffers[a][1], obs_buffers[a][2])
                /\ obs_buffers[a] = frame_skip_init_buffers[a] =>
                        ret'.obs[a] = [k \in 1..ObsSize |-> 0]
      ]_<<obs_buffers, pc, i>>

\* A call of a window of three that stopped at its first sub-step and
\* returned the maximum of the two frames an earlier call had left.
C19_Witness ==
    /\ SkipReturned
    /\ num_frames = 3
    /\ Len(sub_log) = 1
    /\ sub_log[1].alldone
    /\ "first_0" \in DOMAIN ret.obs
    /\ obs_buffers["first_0"] = <<<<0, 1>>, <<1, 0>>>>
    /\ ret.obs["first_0"] = <<1, 1>>

\* The stacked observation of depth K of an agent whose raw observations of
\* the episode are h: the last K of K fill frames followed by h.
StackOf(h, K) == Flatten(LastK([k \in 1..K |-> zeros(ObsSize)] \o h, K))

\* The delayed observation of an agent whose raw observations of the episode
\* are h, the last one being the one just added.
DelayedOf(h, d) == IF Len(h) <= d THEN zeros(ObsSize) ELSE h[Len(h) - d]

\* C20: in frame_stack and delay_observations every agent has a buffer of its
\* own, and after any sequence of resets and steps the buffer of an agent, and
\* the observation returned for it, is determined by the raw observations of
\* that agent since the last reset alone, whatever the other agents got and
\* whether or not they were part of the same calls.
C20_PerAgentIsolation ==
    (ObsWrapper /\ started) =>
        \A a \in Agents :
            IF wrapper = "frame_stack"
            THEN /\ heap[stack[a]] = StackOf(hist[a], stack_size)
                 /\ \A b \in Agents \ {a} : stack[b] # stack[a]
                 /\ a \in DOMAIN ret.obs => ret.obs[a] = StackOf(hist[a], stack_size)
            ELSE /\ delayers[a] = LastK(hist[a], Min(delay, Len(hist[a])))
                 /\ a \in DOMAIN ret.obs => ret.obs[a] = DelayedOf(hist[a], delay)

\* A step the base environment ran for second_0 alone: the buffer of first_0
\* holds the two frames first_0 got, the buffer of second_0 went on.
C20_Witness ==
    /\ wrapper = "frame_stack"
    /\ stack_size = 2
    /\ ret.call = "step"
    /\ DOMAIN ret.obs = {"second_0"}
    /\ Len(hist["first_0"]) = 2
    /\ Len(hist["second_0"]) = 3
    /\ hist["first_0"][2] # hist["second_0"][3]
    /\ heap[stack["first_0"]] = hist["first_0"][1] \o hist["first_0"][2]
    /\ ret.obs["second_0"] = hist["second_0"][2] \o hist["second_0"][3]

====
